---- MODULE Spec2Model ----
(***************************************************************************)
(* Model of parallel/apply.py: a supervisor that runs several children in  *)
(* parallel, relays signals to them, collects their output line by line    *)
(* and escalates (warn, kill, abandon) against children that do not exit.  *)
(*                                                                         *)
(* Time is counted in whole seconds and kept relative to the present: the  *)
(* present instant is Now, and a second that passes moves every stored     *)
(* instant one second towards the past (Tick).  The program only compares  *)
(* stored instants with the present, so an instant already past stays at   *)
(* Now.  Python's None is the empty tuple and a present value x is <<x>>.  *)
(* The display-only fields (Line.time, Process.started, Process.finished,  *)
(* names and timestamps of the printed lines) are left out.                *)
(***************************************************************************)
EXTENDS Integers, Sequences, FiniteSets

\* ------------------------------------------------------------ bounds
NumProcs == 2      \* children launched
MaxWrites == 1     \* Spec: chunks written by all children together
MaxDeliver == 2    \* Spec: signal deliveries to the supervisor
OutWrites == 3     \* SpecOut: chunks written by all children together
SigDeliver == 2    \* SpecSig: signal deliveries to the supervisor
HungDeliver == 1   \* SpecHung: signal deliveries to the supervisor
MaxStream == 5     \* SpecLine: bytes of the stream that is reassembled
MaxText == 5       \* SpecInterp: characters of the text that is interpolated
NumFds == 2        \* SpecCompat: file descriptors given to PollCompat

\* ------------------------------------------------------------ constants
KILL_DELAY == 7
KILL_TIMEOUT == 3
ABANDONED == 999
Now == 0           \* time.time(), the origin of the relative time
POLL_SHORT == 0    \* poll(100): 100 ms, below the clock's resolution
POLL_LONG == 5     \* poll(5000)

SIGHUP == 1
SIGINT == 2
SIGQUIT == 3
SIGUSR1 == 10
SIGUSR2 == 12
SIGTERM == 15
SIG_LIST == {SIGINT, SIGTERM, SIGHUP, SIGQUIT, SIGUSR1, SIGUSR2}
SIG_WAIT == {SIGUSR1, SIGUSR2}

\* The environment of the model: signals that arrive, exit codes that
\* children report (negative: death by signal), chunks that children write.
NL == 10
XB == 120
Arriving == {SIGINT, SIGUSR1}
ExitCodes == {-9, 0, 3}
Chunks == {<<XB>>, <<XB, NL>>}
LineChunks == {<<XB, NL>>}

Children == 1..NumProcs
Streams == {0, 1}

None == <<>>
Some(x) == <<x>>
Val(o) == o[1]

\* Process.killed: False, True (kill sent), or the time of the timeout
KilledFalse == <<"False">>
KilledTrue == <<"True">>
KilledAt(t) == <<"at", t>>

Max(a, b) == IF a > b THEN a ELSE b
\* A stored instant, one second later
Elapse(o) == IF o = None THEN None ELSE Some(Max(Val(o) - 1, Now))

\* ------------------------------------------------------------ sequences
RECURSIVE Remove(_, _)
Remove(s, x) ==
  IF s = <<>> THEN <<>>
  ELSE IF Head(s) = x THEN Tail(s)
  ELSE <<Head(s)>> \o Remove(Tail(s), x)

Range(s) == {s[i] : i \in 1..Len(s)}

\* data.split(b'\n'): the fragments between newlines, at least one
RECURSIVE Split(_)
Split(data) ==
  IF data = <<>> THEN << <<>> >>
  ELSE LET rest == Split(Tail(data))
       IN IF Head(data) = NL THEN << <<>> >> \o rest
          ELSE <<(<<Head(data)>> \o Head(rest))>> \o Tail(rest)

Line(iserr, text) == [iserr |-> iserr, text |-> text]

RECURSIVE Lines(_, _)
Lines(iserr, frags) ==
  IF frags = <<>> THEN <<>>
  ELSE <<Line(iserr, Head(frags))>> \o Lines(iserr, Tail(frags))

ButLast(s) == SubSeq(s, 1, Len(s) - 1)

\* ------------------------------------------------------------ Process
NewProcess ==
  [ret |-> None, outdata |-> <<>>, partial |-> [s \in Streams |-> <<>>],
   sigfail |-> FALSE, kill_time |-> None, killed |-> KilledFalse]

\* Process._AddOutput, lines 390-403, for the fragments of non-empty data
\* when the stream has no partial line
AddFresh(pr, iserr, lines) ==
  [pr EXCEPT
     !.partial[iserr] = IF lines[Len(lines)] # <<>> THEN lines[Len(lines)]
                        ELSE @,
     !.outdata = @ \o Lines(iserr, ButLast(lines))]

\* (a variant that forgets the partial line when data arrives)
AddJoinedFresh(pr, iserr, lines) ==
  AddFresh([pr EXCEPT !.partial[iserr] = <<>>], iserr, lines)

\* ... and when it has one: the first fragment continues the partial line
AddJoined(pr, iserr, lines) ==
  IF Tail(lines) = <<>>
  THEN [pr EXCEPT !.partial[iserr] = @ \o Head(lines)]
  ELSE AddFresh([pr EXCEPT
                   !.outdata = Append(@, Line(iserr, pr.partial[iserr]
                                                     \o Head(lines))),
                   !.partial[iserr] = <<>>],
                iserr, Tail(lines))

\* Process._AddOutput: [ok, proc]
AddOutput(pr, iserr, data) ==
  IF data = <<>> THEN [ok |-> FALSE, proc |-> pr]
  ELSE IF pr.partial[iserr] # <<>>
  THEN [ok |-> TRUE, proc |-> AddJoined(pr, iserr, Split(data))]
  ELSE [ok |-> TRUE, proc |-> AddFresh(pr, iserr, Split(data))]

\* Process._GetOutput on the pipes pp of the child: [ok, proc, pipe].
\* read() takes everything the pipe holds; nothing there (None, b'' or
\* IOError) is False.
Taken(r, pp, iserr) ==
  [ok |-> r.ok, proc |-> r.proc, pipe |-> [pp EXCEPT ![iserr] = <<>>]]

GetOutput(pr, pp, iserr) ==
  Taken(AddOutput(pr, iserr, pp[iserr]), pp, iserr)

\* "o or self._GetOutput(1)": the right side is not evaluated when the left
\* side is True
OrGetStderr(o) ==
  IF o.ok THEN o ELSE GetOutput(o.proc, o.pipe, 1)

\* Process._GetBothOutputs: self._GetOutput(0) or self._GetOutput(1)
GetBothOutputs(pr, pp) ==
  OrGetStderr(GetOutput(pr, pp, 0))

\* What Process.Poll returns, after its read o: ret is <<"False">>,
\* <<"True">> or <<"exit", returncode>>
PollResult(o, returncode) ==
  [ret |-> IF returncode # None THEN <<"exit", Val(returncode)>>
           ELSE IF o.ok THEN <<"True">> ELSE <<"False">>,
   proc |-> o.proc, pipe |-> o.pipe]

\* Process.Poll; returncode is what proc.poll() gives
Poll(pr, pp, returncode) ==
  PollResult(GetBothOutputs(pr, pp), returncode)

\* (a variant that re-arms a killed child and gives the kill KILL_DELAY)
SetKillAgain(pr, final, now) ==
  IF ~final THEN [pr EXCEPT !.kill_time = Some(now + KILL_DELAY)]
  ELSE [pr EXCEPT !.killed = KilledTrue,
                  !.kill_time = Some(now + KILL_DELAY)]

\* SetKill without lines 453-454
SetKillRearm(pr, final, now) ==
  IF ~final THEN [pr EXCEPT !.kill_time = Some(now + KILL_DELAY)]
  ELSE [pr EXCEPT !.killed = KilledTrue,
                  !.kill_time = Some(now + KILL_TIMEOUT)]

\* Process.SetKill at time now
SetKill(pr, final, now) ==
  IF pr.killed # KilledFalse THEN pr
  ELSE IF ~final THEN [pr EXCEPT !.kill_time = Some(now + KILL_DELAY)]
  ELSE [pr EXCEPT !.killed = KilledTrue,
                  !.kill_time = Some(now + KILL_TIMEOUT)]

\* Process.SignalFailed for EPERM (any other error is re-raised)
SignalFailed(pr) == [pr EXCEPT !.sigfail = TRUE]

\* (a variant that ignores its set_kill argument)
SignalAlways(pr, eperm, set_kill0, now) ==
  SetKill(IF eperm THEN SignalFailed(pr) ELSE pr, FALSE, now)

\* Process.Signal: eperm says whether send_signal raised EPERM
Signal(pr, eperm, set_kill0, now) ==
  IF set_kill0
  THEN SetKill(IF eperm THEN SignalFailed(pr) ELSE pr, FALSE, now)
  ELSE IF eperm THEN SignalFailed(pr) ELSE pr

\* Process.Kill
Kill(pr, eperm) == IF eperm THEN SignalFailed(pr) ELSE pr

\* What Process.Print writes for child p: one entry per pending line
RECURSIVE PrintLines(_, _)
PrintLines(p, outdata) ==
  IF outdata = <<>> THEN <<>>
  ELSE <<(<<"line", p, Head(outdata).iserr, Head(outdata).text>>)>>
       \o PrintLines(p, Tail(outdata))

\* What Process.PrintLast writes: the non-empty partial lines, stdout first
PrintLast(p, pr) ==
  (IF pr.partial[0] # <<>> THEN <<(<<"last", p, 0, pr.partial[0]>>)>> ELSE <<>>)
  \o (IF pr.partial[1] # <<>> THEN <<(<<"last", p, 1, pr.partial[1]>>)>> ELSE <<>>)

\* ------------------------------------------------------------ state
VARIABLES
  parsed,        \* the options: sequential, kill_hung, signal_test, verbose
  quota,         \* the writes and signal deliveries that are explored
  proc,          \* the Process object of every child
  procs,         \* main: the live list
  done,          \* main: the done list
  retval,        \* main: the value to return
  sigs_rcvd,     \* Poller.sigs_rcvd
  interruptible, \* Poller.interruptible
  sigs_sent,     \* main: signals forwarded so far
  sigs_to_send,  \* main: the batch being forwarded
  sigs_left,     \* signals of the batch the for loop has not reached yet
  set_kill,      \* main: the escalate argument of the batch
  timeout,       \* the timeout of the coming poll, in seconds
  deadline,      \* when the blocking poll times out
  deadprocs,     \* main: children counted dead in the last scan
  deadset,       \* which children that count was made of
  unregs,        \* per child: how often proc.Unregister(poller) ran
  snap,          \* what sigs_rcvd held when Poller.poll was entered
  pc,            \* where main is: top, fwd, scan, poll1, poll2, except, done,
                 \* crashed
  status,        \* per child: "run", or "exited" and not yet reaped
  pipe,          \* per child and stream: bytes written and not yet read
  nwrites,       \* chunks written so far
  out,           \* what main printed for the children, in order
  diag,          \* the diagnostics of the latest step of main
  nsent,         \* per child and signal: how often it was sent
  ndeliv,        \* per signal: how often the handler ran
  feed,          \* SpecLine: a byte stream given to _AddOutput whole and
                 \* in chunks
  interp,        \* SpecInterp: a call of Interpolate and what it gave
  compat         \* SpecCompat: a PollCompat object

vars == <<parsed, quota, proc, procs, done, retval, sigs_rcvd, interruptible,
          sigs_sent, sigs_to_send, sigs_left, set_kill, timeout, deadline,
          deadprocs, deadset, unregs, snap, pc, status, pipe, nwrites, out,
          diag, nsent, ndeliv, feed, interp, compat>>

\* What no step of the supervisor changes
fixed == <<parsed, quota, feed, interp, compat>>

\* What the supervisor and its environment change
running == <<proc, procs, done, retval, sigs_rcvd, interruptible, sigs_sent,
             sigs_to_send, sigs_left, set_kill, timeout, deadline, deadprocs,
             deadset, unregs, snap, pc, status, pipe, nwrites, out, diag,
             nsent,
             ndeliv>>

envvars == <<status, pipe, nwrites>>
sigvars == <<sigs_sent, sigs_to_send, sigs_left, set_kill, nsent>>
scanvars == <<proc, procs, done, retval, deadprocs, deadset, unregs, out>>

\* The options explored: escalation (Spec), output (SpecOut), relay (SpecSig)
Configs ==
  [sequential : {FALSE}, kill_hung : BOOLEAN, signal_test : BOOLEAN,
   verbose : {FALSE}]
OutConfigs ==
  [sequential : BOOLEAN, kill_hung : {FALSE}, signal_test : {FALSE},
   verbose : BOOLEAN]
HungConfigs ==
  [sequential : {FALSE}, kill_hung : {TRUE}, signal_test : {TRUE},
   verbose : {FALSE}]
SigConfigs ==
  [sequential : {FALSE}, kill_hung : {FALSE}, signal_test : BOOLEAN,
   verbose : BOOLEAN]

RECURSIVE Sum(_, _)
Sum(f, S) ==
  IF S = {} THEN 0
  ELSE LET x == CHOOSE y \in S : TRUE IN f[x] + Sum(f, S \ {x})

\* The state when main reaches its loop: every child spawned and running
InitWith(cfgs, q) ==
  /\ parsed \in cfgs
  /\ quota = q
  /\ proc = [p \in Children |-> NewProcess]
  /\ procs = [i \in 1..NumProcs |-> i]
  /\ done = <<>>
  /\ retval = 0
  /\ sigs_rcvd = {}
  /\ interruptible = FALSE
  /\ sigs_sent = {}
  /\ sigs_to_send = {}
  /\ sigs_left = {}
  /\ set_kill = FALSE
  /\ timeout = 0
  /\ deadline = 0
  /\ deadprocs = 0
  /\ deadset = {}
  /\ unregs = [p \in Children |-> 0]
  /\ snap = {}
  /\ pc = "top"
  /\ status = [p \in Children |-> "run"]
  /\ pipe = [p \in Children |-> [s \in Streams |-> <<>>]]
  /\ nwrites = 0
  /\ out = <<>>
  /\ diag = <<>>
  /\ nsent = [p \in Children |-> [g \in Arriving |-> 0]]
  /\ ndeliv = [g \in Arriving |-> 0]

\* A stream given to Process._AddOutput twice: to the Process whole at
\* once, to the Process parts chunk after chunk; rest is what parts has not
\* been given yet and n counts its chunks.
Feed(iserr, data) ==
  [iserr |-> iserr, whole |-> AddOutput(NewProcess, iserr, data).proc,
   parts |-> NewProcess, rest |-> data, n |-> 0]

\* The function-level specifications are idle while main runs
NoFeed == feed = Feed(0, <<>>)
NoInterp == interp = [text |-> <<>>, mapdict |-> "NULL_MAP", result |-> None]

\* PollCompat.__init__.  setmap is zip(...): a list under Python 2, an
\* iterator that can be gone through once under Python 3.  args is what
\* the latest poll() passed to select.
NewPollCompat(setmap) ==
  [registry |-> [fd \in 1..NumFds |-> None],
   rset |-> {}, wset |-> {}, xset |-> {},
   lists |-> <<(<<>>), (<<>>), (<<>>)>>,
   setmap |-> setmap, args |-> None]

NoCompat == compat = NewPollCompat("list")

NoUnits == NoFeed /\ NoInterp /\ NoCompat

Init ==
  /\ InitWith(Configs,
              [writes |-> MaxWrites, chunks |-> LineChunks,
               signals |-> MaxDeliver, codes |-> {-9, 0}])
  /\ NoUnits
InitOut ==
  /\ InitWith(OutConfigs,
              [writes |-> OutWrites, chunks |-> Chunks, signals |-> 0,
               codes |-> ExitCodes])
  /\ NoUnits
InitHung ==
  /\ InitWith(HungConfigs,
              [writes |-> MaxWrites, chunks |-> LineChunks,
               signals |-> HungDeliver, codes |-> {-9}])
  /\ NoUnits
InitSig ==
  /\ InitWith(SigConfigs,
              [writes |-> 0, chunks |-> {}, signals |-> SigDeliver,
               codes |-> {0}])
  /\ NoUnits

\* main at rest, for the specifications of single functions
Idle ==
  InitWith({[sequential |-> FALSE, kill_hung |-> FALSE, signal_test |-> FALSE,
             verbose |-> FALSE]},
           [writes |-> 0, chunks |-> {}, signals |-> 0, codes |-> {0}])

\* ------------------------------------------------------------ environment
\* The steps of main take no time: children act and time passes while main
\* is in poll.  (What happens between two looks of main at a child or at
\* the clock is seen at the next look, and every pass that found something
\* to do is followed by another pass before main waits.)
EnvTurn == pc \in {"poll1", "poll2"}

\* A child writes a chunk to its stdout (0) or stderr (1)
ChildWrite(p, s, chunk) ==
  /\ EnvTurn
  /\ status[p] = "run"
  /\ nwrites < quota.writes
  /\ chunk \in quota.chunks
  /\ pipe' = [pipe EXCEPT ![p][s] = @ \o chunk]
  /\ nwrites' = nwrites + 1
  /\ UNCHANGED <<fixed, snap, interruptible, sigs_rcvd, sigvars, scanvars, timeout,
                 deadline, pc, status, diag, ndeliv>>

\* A child exits or dies from a signal.  Nothing reads its exit code before
\* proc.poll() reaps it, so the code is drawn there (Scan).
ChildExit(p) ==
  /\ EnvTurn
  /\ status[p] = "run"
  /\ status' = [status EXCEPT ![p] = "exited"]
  /\ UNCHANGED <<fixed, snap, interruptible, sigs_rcvd, sigvars, scanvars, timeout,
                 deadline, pc, pipe, nwrites, diag, ndeliv>>

\* A second passes: every instant that is stored and still read moves one
\* second towards the past.
Tick ==
  /\ EnvTurn
  /\ proc' = [p \in Children |->
                IF p \in Range(procs)
                THEN [proc[p] EXCEPT !.kill_time = Elapse(@)]
                ELSE proc[p]]
  /\ deadline' = Max(deadline - 1, Now)
  /\ <<proc', deadline'>> # <<proc, deadline>>
  /\ UNCHANGED <<fixed, snap, interruptible, sigs_rcvd, sigvars, procs, done,
                 retval, deadprocs, deadset, unregs, out, timeout, pc,
                 envvars, diag,
                 ndeliv>>

\* Where a SignalInterrupt raised at pc takes main: from inside the try of
\* Poller.poll to its except clause, from anywhere else (the except clause
\* itself included) out of main, which ends with a traceback.
Raise(at) == IF at = "poll2" THEN "except" ELSE "crashed"

\* (a variant that keeps the latest signal only)
RecordedLast(rcvd, sig) == {sig}

\* Line 207: cls.sigs_rcvd |= set([signum])
Recorded(rcvd, sig) == rcvd \cup {sig}

\* Poller._SignalHandler: record the signal, and raise SignalInterrupt
\* when the interruptible flag is up.
SignalHandler(sig) ==
  /\ pc \notin {"done", "crashed"}
  /\ Sum(ndeliv, Arriving) < quota.signals
  /\ ndeliv' = [ndeliv EXCEPT ![sig] = @ + 1]
  /\ sigs_rcvd' = Recorded(sigs_rcvd, sig)
  /\ IF interruptible
     THEN /\ pc' = Raise(pc)
          /\ deadline' = 0
     ELSE UNCHANGED <<pc, deadline>>
  /\ UNCHANGED interruptible
  /\ UNCHANGED <<fixed, snap, sigvars, scanvars, timeout, envvars, diag>>

\* ------------------------------------------------------------ main loop
\* DrainBegin without "- sigs_sent" in line 612
DrainBeginAll ==
  /\ pc = "top"
  /\ procs # <<>>
  /\ IF sigs_rcvd # {}
     THEN /\ sigs_to_send' = sigs_rcvd
          /\ sigs_left' = sigs_rcvd
          /\ set_kill' = (parsed.signal_test \/ (sigs_sent \ SIG_WAIT) # {})
          /\ pc' = "fwd"
     ELSE /\ pc' = "scan"
          /\ UNCHANGED <<sigs_to_send, sigs_left, set_kill>>
  /\ diag' = <<>>
  /\ UNCHANGED <<fixed, snap, interruptible, sigs_rcvd, sigs_sent, nsent, scanvars,
                 timeout, deadline, envvars, ndeliv>>

\* Lines 610-613: the while test, and the start of a signal drain
DrainBegin ==
  /\ pc = "top"
  /\ procs # <<>>
  /\ IF sigs_rcvd # {}
     THEN /\ sigs_to_send' = sigs_rcvd \ sigs_sent
          /\ sigs_left' = sigs_rcvd \ sigs_sent
          /\ set_kill' = (parsed.signal_test \/ (sigs_sent \ SIG_WAIT) # {})
          /\ pc' = "fwd"
     ELSE /\ pc' = "scan"
          /\ UNCHANGED <<sigs_to_send, sigs_left, set_kill>>
  /\ diag' = <<>>
  /\ UNCHANGED <<fixed, snap, interruptible, sigs_rcvd, sigs_sent, nsent, scanvars,
                 timeout, deadline, envvars, ndeliv>>

\* Lines 614-621: one round of "for sig in sigs_to_send": sig goes to every
\* live child; E are the children for which send_signal raises EPERM.
ForwardSig(sig, E) ==
  /\ pc = "fwd"
  /\ sig \in sigs_left
  /\ sigs_left' = sigs_left \ {sig}
  /\ proc' = [p \in Children |->
                IF p \in Range(procs)
                THEN Signal(proc[p], p \in E, set_kill, Now)
                ELSE proc[p]]
  /\ nsent' = [p \in Children |->
                 IF p \in Range(procs)
                 THEN [nsent[p] EXCEPT ![sig] = @ + 1]
                 ELSE nsent[p]]
  /\ diag' = (IF parsed.verbose \/ parsed.signal_test
              THEN <<(<<"Forwarding", sig>>)>> ELSE <<>>)
             \o [i \in 1..Cardinality(E) |-> <<"Error sending", sig>>]
  /\ UNCHANGED <<fixed, snap, interruptible, sigs_rcvd, sigs_sent, sigs_to_send,
                 set_kill, procs, done, retval, deadprocs, deadset, unregs,
                 out,
                 timeout, deadline, pc, envvars, ndeliv>>

\* Line 622: sigs_sent |= sigs_to_send
DrainEnd ==
  /\ pc = "fwd"
  /\ sigs_left = {}
  /\ sigs_sent' = sigs_sent \cup sigs_to_send
  /\ sigs_to_send' = {}
  /\ set_kill' = FALSE
  /\ pc' = "scan"
  /\ diag' = <<>>
  /\ UNCHANGED <<fixed, snap, interruptible, sigs_rcvd, sigs_left, nsent, scanvars,
                 timeout, deadline, envvars, ndeliv>>

\* Escalate without the test of line 639
EscalateKill(st, p, eperm, now) ==
  IF st.proc[p].sigfail
  THEN [st EXCEPT !.diag = Append(@, <<"Unsignaled", p>>),
                  !.deadprocs = @ + 1,
                  !.deadset = @ \cup {p}]
  ELSE IF st.proc[p].killed = KilledFalse
  THEN [st EXCEPT !.diag = Append(@, <<"Killing", p>>),
                  !.proc[p] = SetKill(Kill(@, eperm), TRUE, now),
                  !.activity = TRUE]
  ELSE st

\* Lines 636-650: a silent child whose timer is due.  eperm: kill() fails.
Escalate(st, p, eperm, now) ==
  IF st.proc[p].sigfail
  THEN [st EXCEPT !.diag = Append(@, <<"Unsignaled", p>>),
                  !.deadprocs = @ + 1,
                  !.deadset = @ \cup {p}]
  ELSE IF ~parsed.kill_hung
  THEN [st EXCEPT !.diag = Append(@, <<"hung", p>>),
                  !.proc[p] = SetKill(@, FALSE, now)]
  ELSE IF st.proc[p].killed = KilledFalse
  THEN [st EXCEPT !.diag = Append(@, <<"Killing", p>>)
                            \o (IF eperm THEN <<(<<"Error killing", p>>)>>
                                ELSE <<>>),
                  !.proc[p] = SetKill(Kill(@, eperm), TRUE, now),
                  !.activity = TRUE]
  ELSE IF st.proc[p].killed = KilledTrue
  THEN [st EXCEPT !.diag = Append(@, <<"Timed out killing", p>>),
                  !.proc[p].killed = KilledAt(now),
                  !.deadprocs = @ + 1,
                  !.deadset = @ \cup {p}]
  ELSE st

\* NoData without the tests of lines 630-634
NoDataAlways(st, p, eperm, now) ==
  Escalate([st EXCEPT !.hung_check = TRUE], p, eperm, now)

\* Lines 629-651: Poll returned False
NoData(st, p, eperm, now) ==
  IF st.proc[p].kill_time = None THEN st
  ELSE IF Val(st.proc[p].kill_time) > now
  THEN [st EXCEPT !.hung_check = TRUE]
  ELSE Escalate([st EXCEPT !.hung_check = TRUE], p, eperm, now)

\* Process.Print from main: print the pending lines and forget them
ProcessPrint(st, p) ==
  [st EXCEPT !.out = @ \o PrintLines(p, st.proc[p].outdata),
             !.proc[p].outdata = <<>>]

\* PrintLive without the test of line 655
PrintLiveAlways(st, p) == ProcessPrint(st, p)

\* Lines 654-656: when down to the last process, output in real time
PrintLive(st, p) ==
  IF ~parsed.sequential \/ Len(st.procs) < 2 THEN ProcessPrint(st, p) ELSE st

\* ResetKill without lines 658-659
ResetKillNever(st, p, now) == st

\* Lines 657-659: reset any signal timeout after output
ResetKill(st, p, now) ==
  IF st.proc[p].kill_time # None
  THEN [st EXCEPT !.proc[p] = SetKill(@, FALSE, now)]
  ELSE st

\* Lines 652-660: Poll returned True
Data(st, p, now) ==
  ResetKill(PrintLive([st EXCEPT !.activity = TRUE], p), p, now)

\* The timer of a child that left the live list is never read again: of
\* its instant only "set or not" is kept.
Stale(o) == IF o = None THEN None ELSE Some(Now)

\* MoveToDone that leaves the child on the live list
MoveToDoneStay(st, p, ret) ==
  [st EXCEPT !.proc[p].ret = Some(ret),
             !.proc[p].kill_time = Stale(@),
             !.done = Append(@, p),
             !.unregs[p] = @ + 1]

\* Lines 661-664: the child moves from the live list to the done list
MoveToDone(st, p, ret) ==
  [st EXCEPT !.proc[p].ret = Some(ret),
             !.proc[p].kill_time = Stale(@),
             !.procs = Remove(@, p),
             !.done = Append(@, p),
             !.unregs[p] = @ + 1]

\* Line 666: proc.PrintLast
ProcessPrintLast(st, p) ==
  [st EXCEPT !.out = @ \o PrintLast(p, st.proc[p])]

\* Lines 667-680: the [Returned ...] diagnostic and the return value
Returned(st, p, ret) ==
  IF ret # 0 \/ parsed.verbose
  THEN [st EXCEPT !.out = Append(@, <<"Returned", p, ret>>),
                  !.retval = IF ret > @ THEN ret ELSE @]
  ELSE st

\* CatchUp without lines 690-691
CatchUpNever(st) == [st EXCEPT !.activity = TRUE]

\* Lines 689-692: if transitioning to last process while sequential, catch up
CatchUp(st) ==
  IF parsed.sequential /\ Len(st.procs) = 1
  THEN [ProcessPrint(st, st.procs[1]) EXCEPT !.activity = TRUE]
  ELSE [st EXCEPT !.activity = TRUE]

\* ExitCode with lines 667-680 moved before lines 665-666
ExitCodeEarly(st, p, ret) ==
  CatchUp(ProcessPrintLast(ProcessPrint(Returned(MoveToDone(st, p, ret), p,
                                                 ret),
                                        p),
                           p))

\* Lines 661-692: Poll returned the exit code ret
ExitCode(st, p, ret) ==
  CatchUp(Returned(ProcessPrintLast(ProcessPrint(MoveToDone(st, p, ret), p),
                                    p),
                   p, ret))

\* Lines 629, 652, 661: the three kinds of result r of Poll
Dispatch(st, p, r, eperm, now) ==
  IF r.ret = <<"False">> THEN NoData(st, p, eperm, now)
  ELSE IF r.ret = <<"True">> THEN Data(st, p, now)
  ELSE ExitCode(st, p, r.ret[2])

Polled(st, p, r) == [st EXCEPT !.proc[p] = r.proc, !.pipe[p] = r.pipe]

PollStep(st, p, r, eperm, now) == Dispatch(Polled(st, p, r), p, r, eperm, now)

\* Lines 628-692: the body of "for proc in procs[:]" for child p, whose
\* proc.poll() gives returncode
PollOne(st, p, returncode, eperm, now) ==
  PollStep(st, p, Poll(st.proc[p], st.pipe[p], returncode), eperm, now)

RECURSIVE PollAll(_, _, _, _, _)
PollAll(st, todo, C, E, now) ==
  IF todo = <<>> THEN st
  ELSE PollAll(PollOne(st, Head(todo),
                       IF Head(todo) \in DOMAIN C THEN Some(C[Head(todo)])
                       ELSE None,
                       Head(todo) \in E, now),
               Tail(todo), C, E, now)

\* AfterScan without "and deadprocs >= len(procs)" in line 693
AfterScanAnyDead(st) ==
  IF st.deadprocs > 0
  THEN [st EXCEPT !.diag = Append(@, <<"Abandoning", st.deadprocs>>),
                  !.retval = ABANDONED,
                  !.pc = "done"]
  ELSE IF ~st.activity
  THEN [st EXCEPT !.pc = "poll1",
                  !.timeout = IF st.hung_check THEN POLL_SHORT ELSE POLL_LONG]
  ELSE [st EXCEPT !.pc = "top"]

\* Lines 693-698: what follows the for loop
AfterScan(st) ==
  IF st.deadprocs > 0 /\ st.deadprocs >= Len(st.procs)
  THEN [st EXCEPT !.diag = Append(@, <<"Abandoning", st.deadprocs>>),
                  !.retval = ABANDONED,
                  !.pc = "done"]
  ELSE IF ~st.activity
  THEN [st EXCEPT !.pc = "poll1",
                  !.timeout = IF st.hung_check THEN POLL_SHORT ELSE POLL_LONG]
  ELSE [st EXCEPT !.pc = "top"]

\* Lines 623-626: the locals of one pass
ScanStart ==
  [proc |-> proc, procs |-> procs, done |-> done, retval |-> retval,
   out |-> out, diag |-> <<>>, pipe |-> pipe, activity |-> FALSE,
   hung_check |-> FALSE, deadprocs |-> 0, deadset |-> {}, unregs |-> unregs,
   pc |-> "scan",
   timeout |-> 0]

Exited == {p \in Range(procs) : status[p] = "exited"}

\* Lines 623-698: one pass over the live children.  C gives the exit codes
\* of the children that have exited (a negative code: death by signal), E
\* are the children for which kill() would raise EPERM.
Scan(C, E) ==
  /\ pc = "scan"
  /\ \E st \in {AfterScan(PollAll(ScanStart, procs, C, E, Now))} :
        /\ proc' = st.proc
        /\ procs' = st.procs
        /\ done' = st.done
        /\ retval' = st.retval
        /\ out' = st.out
        /\ diag' = st.diag
        /\ pipe' = st.pipe
        /\ deadprocs' = st.deadprocs
        /\ deadset' = st.deadset
        /\ unregs' = st.unregs
        /\ pc' = st.pc
        /\ timeout' = st.timeout
        /\ snap' = IF st.pc = "poll1" THEN sigs_rcvd ELSE {}
  /\ UNCHANGED <<fixed, interruptible, sigs_rcvd, sigvars, deadline, status,
                 nwrites, ndeliv>>

\* poll() reports a registered pipe that holds data or is at end of file
Ready ==
  \E p \in Range(procs) :
    status[p] = "exited" \/ pipe[p][0] # <<>> \/ pipe[p][1] # <<>>

\* cur_sigs of Poller.poll is bound to the set object that Poller.sigs_rcvd
\* names (line 174), and the handler updates that object in place (line
\* 207): reading cur_sigs gives what the set holds now.
cur_sigs == sigs_rcvd

\* Poller.poll, lines 174-183: the short poll; with nothing ready the
\* interruptible flag goes up and, when cur_sigs == cls.sigs_rcvd, the
\* blocking poll starts.
PollEnter ==
  /\ pc = "poll1"
  /\ IF Ready
     THEN /\ pc' = "top"
          /\ UNCHANGED <<interruptible, deadline>>
     ELSE IF cur_sigs = sigs_rcvd
     THEN /\ interruptible' = TRUE
          /\ deadline' = Now + timeout
          /\ pc' = "poll2"
     ELSE /\ pc' = "top"
          /\ UNCHANGED <<interruptible, deadline>>
  /\ timeout' = 0
  /\ snap' = {}
  /\ diag' = <<>>
  /\ UNCHANGED <<fixed, sigs_rcvd, sigvars, scanvars, envvars, ndeliv>>

\* Poller.poll, lines 183-186: the blocking poll returns, on readiness or
\* on its timeout
PollReturn ==
  /\ pc = "poll2"
  /\ Ready \/ deadline <= Now
  /\ interruptible' = FALSE
  /\ deadline' = 0
  /\ pc' = "top"
  /\ diag' = <<>>
  /\ UNCHANGED <<fixed, snap, sigs_rcvd, sigvars, scanvars, timeout, envvars,
                 ndeliv>>

\* Poller.poll, lines 187-191: the except clause for SignalInterrupt
ExceptClause ==
  /\ pc = "except"
  /\ interruptible' = FALSE
  /\ pc' = "top"
  /\ diag' = <<>>
  /\ UNCHANGED <<fixed, snap, sigs_rcvd, sigvars, scanvars, timeout, deadline,
                 envvars, ndeliv>>

\* Line 610 with no live child left, to line 720: main returns retval
Return ==
  /\ pc = "top"
  /\ procs = <<>>
  /\ pc' = "done"
  /\ diag' = <<>>
  /\ UNCHANGED <<fixed, snap, interruptible, sigs_rcvd, sigvars, scanvars, timeout,
                 deadline, envvars, ndeliv>>

Next ==
  \/ \E p \in Children, s \in Streams, chunk \in Chunks : ChildWrite(p, s, chunk)
  \/ \E p \in Children : ChildExit(p)
  \/ Tick
  \/ \E sig \in Arriving : SignalHandler(sig)
  \/ DrainBegin
  \/ \E sig \in Arriving, E \in SUBSET Range(procs) : ForwardSig(sig, E)
  \/ DrainEnd
  \/ \E C \in [Exited -> quota.codes], E \in SUBSET (Range(procs) \ Exited) :
       Scan(C, E)
  \/ PollEnter
  \/ PollReturn
  \/ ExceptClause
  \/ Return

Spec == Init /\ [][Next]_vars

\* Output: children write and exit; no signal arrives
NextOut ==
  \/ \E p \in Children, s \in Streams, chunk \in Chunks : ChildWrite(p, s, chunk)
  \/ \E p \in Children : ChildExit(p)
  \/ Tick
  \/ DrainBegin
  \/ \E C \in [Exited -> quota.codes] : Scan(C, {})
  \/ PollEnter
  \/ PollReturn
  \/ Return

SpecOut == InitOut /\ [][NextOut]_vars

\* Relay: signals arrive and children exit; children are silent
NextSig ==
  \/ \E p \in Children : ChildExit(p)
  \/ Tick
  \/ \E sig \in Arriving : SignalHandler(sig)
  \/ DrainBegin
  \/ \E sig \in Arriving, E \in SUBSET Range(procs) : ForwardSig(sig, E)
  \/ DrainEnd
  \/ \E C \in [Exited -> quota.codes] : Scan(C, {})
  \/ PollEnter
  \/ PollReturn
  \/ ExceptClause
  \/ Return

SpecSig == InitSig /\ [][NextSig]_vars

\* Hung children: -K and --signal-test, one signal, and the main loop
\* keeps running while time passes.  Nothing obliges a child to write or
\* to exit, or a signal to arrive.  The steps of main other than the pass:
MainStep ==
  \/ DrainBegin
  \/ \E sig \in Arriving, E \in SUBSET Range(procs) : ForwardSig(sig, E)
  \/ DrainEnd
  \/ PollEnter
  \/ PollReturn
  \/ ExceptClause
  \/ Return

\* The pass (Scan) is the one step of main at pc = "scan"; it is always
\* possible there and always leaves that place.  Weak fairness of the pass
\* is therefore that main does not stay at pc = "scan" for ever.
PassFair == []<>(pc # "scan")

SpecHung ==
  /\ InitHung
  /\ [][Next]_vars
  /\ WF_vars(MainStep)
  /\ PassFair
  /\ WF_vars(Tick)

\* Relay with a main loop that keeps running while time passes: signals
\* arrive and children exit when they like, nothing obliges them to.
SpecLive ==
  /\ InitSig
  /\ [][NextSig]_vars
  /\ WF_vars(MainStep)
  /\ PassFair
  /\ WF_vars(Tick)

\* ------------------------------------------------------------ _AddOutput
\* The byte streams of SpecLine: letters and newlines, 1..MaxStream bytes
RECURSIVE SeqsUpTo(_, _)
SeqsUpTo(S, n) ==
  IF n = 0 THEN {<<>>}
  ELSE LET shorter == SeqsUpTo(S, n - 1)
       IN shorter \cup {Append(q, x) : q \in shorter, x \in S}

ByteStreams == SeqsUpTo({XB, NL}, MaxStream) \ {<<>>}

InitLine ==
  /\ Idle
  /\ NoInterp
  /\ NoCompat
  /\ feed \in {Feed(s, d) : s \in Streams, d \in ByteStreams}

\* The next k bytes of the stream arrive in one read
AddChunk(k) ==
  /\ k \in 1..Len(feed.rest)
  /\ feed' = [feed EXCEPT
                !.parts = AddOutput(@, feed.iserr, SubSeq(feed.rest, 1, k)).proc,
                !.rest = SubSeq(@, k + 1, Len(@)),
                !.n = @ + 1]
  /\ UNCHANGED <<parsed, quota, running, interp, compat>>

NextLine == \E k \in 1..MaxStream : AddChunk(k)

SpecLine == InitLine /\ [][NextLine]_vars

\* ------------------------------------------------------------ Interpolate
\* A text is a sequence of characters.  Offsets count from 0 as in Python.
At(text, i) == text[i + 1]
Slice(text, a, b) == SubSeq(text, a + 1, b)

\* text.find('%', pos)
Find(text, pos) ==
  IF \E i \in pos..(Len(text) - 1) : At(text, i) = "%"
  THEN CHOOSE i \in pos..(Len(text) - 1) :
         /\ At(text, i) = "%"
         /\ \A j \in pos..(i - 1) : At(text, j) # "%"
  ELSE -1

\* What a function of a map gives for the value 'X' of the calls explored:
\* a string, or IndexError
IndexError == <<"IndexError">>
ValueX == <<"X">>

\* The maps, on the keys that the texts explored use: str(x) for %P,
\* x.split()[0] for %0 and x.split()[1] for %1
NULL_MAP == <<>>
PATH_MAP == [c \in {"P"} |-> ValueX]
ARG_MAP == [c \in {"0", "1"} |-> IF c = "0" THEN ValueX ELSE IndexError]
MapDicts == [m \in {"NULL_MAP", "PATH_MAP", "ARG_MAP"} |->
               IF m = "NULL_MAP" THEN NULL_MAP
               ELSE IF m = "PATH_MAP" THEN PATH_MAP ELSE ARG_MAP]

Returns(result) == <<"return", result>>
Raises(char) == <<"UnknownInterpolation", char>>

\* (a variant that keeps both characters of '%%')
EscapeBoth(text, pos, result) ==
  Returns(result \o <<"%", "%">> \o Slice(text, pos, Len(text)))

\* Lines 223-225 and 233-234: '%%' gives '%', ends the scan, and the rest of
\* the text follows as it is
Escape(text, pos, result) ==
  Returns(result \o <<"%">> \o Slice(text, pos, Len(text)))

\* Lines 226-232: the character after '%' selects a function of the map
Expand(mapdict, char, result) ==
  IF mapdict[char] = IndexError THEN result ELSE result \o mapdict[char]

\* Lines 216-234: the loop of Interpolate from offset pos on, with the
\* pieces collected so far in result (joined)
RECURSIVE Scanning(_, _, _, _)
Scanning(text, mapdict, pos, result) ==
  LET loc == Find(text, pos)
  IN IF loc < 0 \/ loc >= Len(text) - 1
     THEN Returns(result \o Slice(text, pos, Len(text)))
     ELSE IF At(text, loc + 1) = "%"
     THEN Escape(text, loc + 2, result \o Slice(text, pos, loc))
     ELSE IF At(text, loc + 1) \notin DOMAIN mapdict
     THEN Raises(At(text, loc + 1))
     ELSE Scanning(text, mapdict, loc + 2,
                   Expand(mapdict, At(text, loc + 1),
                          result \o Slice(text, pos, loc)))

Interpolate(text, mapdict) == Scanning(text, mapdict, 0, <<>>)

\* The texts explored: up to MaxText characters, and 'a%%b%Pc'
Example == <<"a", "%", "%", "b", "%", "P", "c">>
Texts == SeqsUpTo({"%", "P", "1", "c"}, MaxText) \cup {Example}

InitInterp ==
  /\ Idle
  /\ NoFeed
  /\ NoCompat
  /\ interp \in [text : Texts, mapdict : DOMAIN MapDicts, result : {None}]

Call ==
  /\ interp.result = None
  /\ interp' = [interp EXCEPT
                  !.result = Some(Interpolate(interp.text,
                                              MapDicts[interp.mapdict]))]
  /\ UNCHANGED <<parsed, quota, running, feed, compat>>

NextInterp == Call

SpecInterp == InitInterp /\ [][NextInterp]_vars

\* ------------------------------------------------------------ PollCompat
POLLIN == 1
POLLPRI == 2
POLLOUT == 4
POLLBITS == <<POLLIN, POLLOUT, POLLPRI>>
POLLALL == POLLIN + POLLOUT + POLLPRI

Fds == 1..NumFds
Masks == 1..POLLALL

\* eventmask & bit, for a bit of POLLBITS
HasBit(mask, bit) == (mask \div bit) % 2 = 1

\* list(x) for a set x of descriptors: its members, each once
RECURSIVE ListOf(_)
ListOf(S) ==
  IF S = {} THEN <<>>
  ELSE LET x == CHOOSE y \in S : \A z \in S : y <= z
       IN <<x>> \o ListOf(S \ {x})

\* [list(x) for x in self.setlist]
Relisted(c) ==
  [c EXCEPT !.lists = <<ListOf(c.rset), ListOf(c.wset), ListOf(c.xset)>>]

\* "for bit, curset in self.setmap" reaches its body unless setmap is an
\* iterator that an earlier loop used up
Looping(c) == c.setmap # "exhausted"
Looped(c) ==
  [c EXCEPT !.setmap = IF @ = "list" THEN "list" ELSE "exhausted"]

\* Lines 110-113: curset |= fset for the bits of eventmask
SetsAdd(c, xfd, eventmask) ==
  IF ~Looping(c) THEN c
  ELSE Looped([c EXCEPT
    !.rset = IF HasBit(eventmask, POLLIN) THEN @ \cup {xfd} ELSE @,
    !.wset = IF HasBit(eventmask, POLLOUT) THEN @ \cup {xfd} ELSE @,
    !.xset = IF HasBit(eventmask, POLLPRI) THEN @ \cup {xfd} ELSE @])

\* Lines 127-130: curset -= fset for the bits of mask
SetsRemove(c, xfd, mask) ==
  IF ~Looping(c) THEN c
  ELSE Looped([c EXCEPT
    !.rset = IF HasBit(mask, POLLIN) THEN @ \ {xfd} ELSE @,
    !.wset = IF HasBit(mask, POLLOUT) THEN @ \ {xfd} ELSE @,
    !.xset = IF HasBit(mask, POLLPRI) THEN @ \ {xfd} ELSE @])

\* PollCompat.register
register(c, xfd, eventmask) ==
  Relisted(SetsAdd([c EXCEPT !.registry[xfd] = Some(eventmask)],
                   xfd, eventmask))

\* PollCompat.unregister of a registered descriptor
unregister(c, xfd) ==
  Relisted([SetsRemove(c, xfd, Val(c.registry[xfd]))
              EXCEPT !.registry[xfd] = None])

\* PollCompat.modify of a registered descriptor
modify(c, xfd, eventmask) == register(unregister(c, xfd), xfd, eventmask)

\* PollCompat.poll, line 136: "self.lists + [timeout / 1000.0] if timeout
\* else []" is "(self.lists + [...]) if timeout else []"
PollArgs(c, tmo) ==
  IF tmo # 0 THEN c.lists \o <<tmo>> ELSE <<>>

InitCompat ==
  /\ Idle
  /\ NoFeed
  /\ NoInterp
  /\ compat \in {NewPollCompat("list"), NewPollCompat("iterator")}

Register(xfd, eventmask) ==
  /\ compat' = register(compat, xfd, eventmask)
  /\ UNCHANGED <<parsed, quota, running, feed, interp>>

\* modify of a descriptor that is not registered raises IOError, and
\* unregister raises KeyError, before anything changes
Modify(xfd, eventmask) ==
  /\ compat.registry[xfd] # None
  /\ compat' = modify(compat, xfd, eventmask)
  /\ UNCHANGED <<parsed, quota, running, feed, interp>>

Unregister(xfd) ==
  /\ compat.registry[xfd] # None
  /\ compat' = unregister(compat, xfd)
  /\ UNCHANGED <<parsed, quota, running, feed, interp>>

\* poll(timeout), timeout in ms; 0 stands for None as well
CompatPoll(tmo) ==
  /\ compat' = [compat EXCEPT !.args = Some(PollArgs(compat, tmo))]
  /\ UNCHANGED <<parsed, quota, running, feed, interp>>

NextCompat ==
  \/ \E xfd \in Fds, eventmask \in Masks : Register(xfd, eventmask)
  \/ \E xfd \in Fds, eventmask \in Masks : Modify(xfd, eventmask)
  \/ \E xfd \in Fds : Unregister(xfd)
  \/ \E tmo \in {0, 1} : CompatPoll(tmo)

SpecCompat == InitCompat /\ [][NextCompat]_vars

\* ------------------------------------------------------------ properties
\* The greatest exit code among the children, all of them done
MaxRet ==
  CHOOSE m \in {Val(proc[p].ret) : p \in Children} :
    \A p \in Children : Val(proc[p].ret) <= m

\* C1: when main leaves its loop without abandonment the value it returns
\* is the maximum of the exit codes of all children, negative codes
\* included; when it abandons children the value is 999.
C1_ReturnsMaxOrAbandoned ==
  pc = "done" =>
    IF procs = <<>> THEN retval = MaxRet ELSE retval = ABANDONED

\* C3: every forwarding of a signal outside SIG_WAIT to a live child, the
\* first one of the run and without --signal-test included, arms the kill
\* timer of that child: kill_time = now + KILL_DELAY.
C3_ForwardArmsTimer ==
  [][\A p \in Children, sig \in Arriving \ SIG_WAIT :
       nsent'[p][sig] > nsent[p][sig]
         => proc'[p].kill_time = Some(Now + KILL_DELAY)]_vars

\* C4: a signal number is sent to a child at most once in the whole run,
\* however often it is delivered to the supervisor, and once the signal is
\* forwarded every live child has received exactly one send of it.
C4_ForwardedOnce ==
  \A p \in Children, sig \in Arriving :
    /\ nsent[p][sig] <= 1
    /\ (sig \in sigs_sent /\ p \in Range(procs)) => nsent[p][sig] = 1

\* A signal was delivered twice and every live child got it once
C4_Witness ==
  \E sig \in Arriving :
    /\ ndeliv[sig] >= 2
    /\ sig \in sigs_sent
    /\ Len(procs) = NumProcs
    /\ \A p \in Children : nsent[p][sig] = 1

\* C5: when Poll finds that a child has exited, both its stdout and its
\* stderr are read to the end: nothing the child wrote stays unread in
\* either pipe once the child is on the done list.
C5_BothStreamsDrained ==
  \A p \in Range(done) : pipe[p][0] = <<>> /\ pipe[p][1] = <<>>

\* The printed lines (completed lines and final partial lines), in order
IsLine(e) == e[1] \in {"line", "last"}

\* C6: in sequential mode the lines of each child form one contiguous
\* block of the output: no line of another child is printed between two
\* lines of the same child.
C6_SequentialBlocks ==
  parsed.sequential =>
    \A i, j, k \in 1..Len(out) :
      (i < j /\ j < k /\ IsLine(out[i]) /\ IsLine(out[j]) /\ IsLine(out[k])
         /\ out[i][2] = out[k][2])
        => out[j][2] = out[i][2]

\* Sequential mode printed several lines of one child and a line of another
C6_Witness ==
  /\ parsed.sequential
  /\ \E i, j, k \in 1..Len(out) :
       /\ i < j /\ j # k /\ i # k
       /\ out[i][1] = "line" /\ out[j][1] = "line" /\ out[k][1] = "line"
       /\ out[i][2] = out[j][2]
       /\ out[k][2] # out[i][2]

\* C7: in sequential mode, whenever exactly one child is live no completed
\* line of it is pending at the end of a pass: its outdata is empty, the
\* backlog from the time when other children were live included.
C7_SoleChildStreams ==
  (parsed.sequential /\ Len(procs) = 1) => proc[procs[1]].outdata = <<>>

\* Sequential mode, one child left and still running, and lines of it are
\* printed after the lines of the child that exited
C7_Witness ==
  /\ parsed.sequential
  /\ Len(procs) = 1
  /\ status[procs[1]] = "run"
  /\ \E i, j \in 1..Len(out) :
       /\ i < j
       /\ out[i][1] = "line" /\ out[i][2] = done[1]
       /\ out[j][1] = "line" /\ out[j][2] = procs[1]

\* A pass over the live children (Scan) is the step from pc = "scan"
ScanStep == pc = "scan" /\ pc' # "scan"

\* Child p is live and running, and the pass will read output from it
ReadsOutput(p) ==
  /\ p \in Range(procs)
  /\ status[p] = "run"
  /\ pipe[p][0] # <<>> \/ pipe[p][1] # <<>>

\* Child p is live, running and silent, and its timer is due
SilentDue(p) ==
  /\ p \in Range(procs)
  /\ status[p] = "run"
  /\ pipe[p][0] = <<>> /\ pipe[p][1] = <<>>
  /\ proc[p].kill_time # None
  /\ Val(proc[p].kill_time) <= Now

Signalled(p) == \E sig \in Arriving : nsent[p][sig] > 0

InDiag(d, e) == \E i \in 1..Len(d) : d[i] = e

\* C8 as stated: a live child that produces output after a signal was
\* forwarded to it has its kill_time re-armed to now + KILL_DELAY by the
\* poll that reads the output.
C8_OutputRearmsSignalled ==
  [][ScanStep =>
       \A p \in Children :
         (ReadsOutput(p) /\ Signalled(p))
           => proc'[p].kill_time = Some(Now + KILL_DELAY)]_vars

\* C8: a live child whose kill timer is armed and to which the kill has not
\* been sent, and that produces output, has its kill_time re-armed to
\* now + KILL_DELAY by the poll that reads the output.
C8_OutputRearmsArmed ==
  [][ScanStep =>
       \A p \in Children :
         (ReadsOutput(p) /\ proc[p].kill_time # None
            /\ proc[p].killed = KilledFalse)
           => proc'[p].kill_time = Some(Now + KILL_DELAY)]_vars

\* One signal was forwarded, so that all timers were armed at one instant;
\* time passed, and the timer of a child whose line was printed is back at
\* now + KILL_DELAY while the timer of a silent child has run down
C8_Witness ==
  /\ Sum(ndeliv, Arriving) = 1
  /\ \E p, q \in Range(procs) :
       /\ proc[p].kill_time = Some(Now + KILL_DELAY)
       /\ proc[p].killed = KilledFalse
       /\ proc[q].kill_time # None
       /\ proc[q].kill_time # Some(Now + KILL_DELAY)
       /\ \E i \in 1..Len(out) : out[i][1] = "line" /\ out[i][2] = p

\* C9 as stated: without -K no kill is sent and killed stays False for
\* every child; a child whose timer is due only gets the 'hung' warning
\* and its kill_time re-armed to now + KILL_DELAY.
C9_WarnOnlyWithoutK ==
  [][~parsed.kill_hung =>
       /\ \A p \in Children :
            /\ proc'[p].killed = KilledFalse
            /\ ~InDiag(diag', <<"Killing", p>>)
       /\ ScanStep =>
            \A p \in Children :
              SilentDue(p) =>
                /\ InDiag(diag', <<"hung", p>>)
                /\ proc'[p].kill_time = Some(Now + KILL_DELAY)]_vars

\* C9: without -K no kill is sent and killed stays False for every child;
\* a child whose timer is due and whose signalling has not failed only
\* gets the 'hung' warning and its kill_time re-armed to now + KILL_DELAY.
C9_WarnOnlyWithoutKSignalable ==
  [][~parsed.kill_hung =>
       /\ \A p \in Children :
            /\ proc'[p].killed = KilledFalse
            /\ ~InDiag(diag', <<"Killing", p>>)
       /\ ScanStep =>
            \A p \in Children :
              (SilentDue(p) /\ ~proc[p].sigfail) =>
                /\ InDiag(diag', <<"hung", p>>)
                /\ proc'[p].kill_time = Some(Now + KILL_DELAY)]_vars

\* Without -K a child got the 'hung' warning and a new timer
C9_Witness ==
  /\ ~parsed.kill_hung
  /\ \E p \in Range(procs) :
       /\ InDiag(diag, <<"hung", p>>)
       /\ ~proc[p].sigfail
       /\ proc[p].killed = KilledFalse
       /\ proc[p].kill_time = Some(Now + KILL_DELAY)

\* C10: main abandons (returns 999) only in a pass that counted every
\* child still live as dead: signalling it failed, or the kill sent to it
\* timed out in that pass, and its timer was due.
C10_AbandonOnlyAllDead ==
  retval = ABANDONED =>
    \A p \in Range(procs) :
      /\ p \in deadset
      /\ proc[p].sigfail \/ proc[p].killed = KilledAt(Now)
      /\ proc[p].kill_time = Some(Now)

\* Main abandoned a child after another child had exited
C10_Witness ==
  /\ retval = ABANDONED
  /\ pc = "done"
  /\ done # <<>>
  /\ procs # <<>>

\* Child p cannot be signalled any more: its timer is due, and signalling
\* it failed or the kill was sent to it
DeadUnsignalable(p) ==
  /\ proc[p].kill_time # None
  /\ Val(proc[p].kill_time) <= Now
  /\ proc[p].sigfail \/ proc[p].killed # KilledFalse

AllLiveDead ==
  /\ pc \notin {"done", "crashed"}
  /\ procs # <<>>
  /\ \A p \in Range(procs) : DeadUnsignalable(p)

\* C2: whenever every live child is dead-unsignalable, main eventually
\* abandons them and returns 999 (unless a child leaves that condition
\* first), also when the children got there in different passes.
C2_EventuallyAbandons ==
  AllLiveDead ~> (retval = ABANDONED \/ ~AllLiveDead)

\* C12: if a signal is recorded into sigs_rcvd after Poller.poll took its
\* snapshot and before it raised the interruptible flag, poll skips the
\* blocking poll and returns: main is never taken from there into the
\* wait with the caller's timeout.
C12_LateSignalSkipsPoll ==
  [][(pc = "poll1" /\ snap # sigs_rcvd /\ pc' # "poll1") => pc' = "top"]_vars

\* C13: every SignalInterrupt that the handler raises is caught inside
\* Poller.poll; none leaves poll towards the main loop, however the
\* deliveries of signals fall.
C13_InterruptCaught == pc # "crashed"

\* C14: Poller.interruptible is false whenever control is outside
\* Poller.poll: it can be true only in the blocking poll and on the way
\* through the except clause.
C14_InterruptibleOnlyInPoll ==
  interruptible => pc \in {"poll2", "except"}


\* C11: line reassembly does not depend on how the stream is cut.  Once every
\* chunk of a partition of the stream has been given to _AddOutput, the
\* completed lines and the partial lines are those that the whole stream
\* given at once produces.
C11_SplitInvariant ==
  feed.rest = <<>> =>
    /\ feed.parts.outdata = feed.whole.outdata
    /\ feed.parts.partial = feed.whole.partial

\* A stream of two lines and an unfinished third, arrived in three chunks
C11_Witness ==
  /\ feed.rest = <<>>
  /\ feed.n = 3
  /\ Len(feed.parts.outdata) = 2
  /\ feed.parts.partial[feed.iserr] # <<>>

\* What a pass printed
Printed == SubSeq(out', Len(out) + 1, Len(out'))

\* The entries of s that belong to child p
Of(p, s) == SelectSeq(s, LAMBDA e : e[2] = p)

\* The Process of child p once the reads of its Poll are done
AfterRead(p) == GetBothOutputs(proc[p], pipe[p]).proc

\* The [Returned ...] diagnostic of child p, when the pass gave one
ReturnedDiag(p) ==
  IF Val(proc'[p].ret) # 0 \/ parsed.verbose
  THEN <<(<<"Returned", p, Val(proc'[p].ret)>>)>>
  ELSE <<>>

\* C15: for a child that has exited, the pass that reaps it prints all its
\* buffered completed lines, then its partial lines, and only then its
\* [Returned ...] diagnostic, in interleaved and in sequential mode; nothing
\* stays buffered.
C15_FlushedBeforeReturned ==
  [][ScanStep =>
       \A p \in Range(done') \ Range(done) :
         /\ Of(p, Printed) = PrintLines(p, AfterRead(p).outdata)
                               \o PrintLast(p, AfterRead(p))
                               \o ReturnedDiag(p)
         /\ proc'[p].outdata = <<>>]_vars

\* Sequential mode: a child exited while the other one is live, and its
\* buffered line, its partial line and its diagnostic were printed in order
C15_Witness ==
  /\ parsed.sequential
  /\ procs # <<>>
  /\ \E i, j, k \in 1..Len(out) :
       /\ i < j /\ j < k
       /\ out[i][1] = "line" /\ out[j][1] = "last" /\ out[k][1] = "Returned"
       /\ out[i][2] = out[k][2] /\ out[j][2] = out[k][2]

\* The texts that hold '%%', and the offset of the first one
HasEscape(text) ==
  \E i \in 0..(Len(text) - 2) : At(text, i) = "%" /\ At(text, i + 1) = "%"
FirstEscape(text) ==
  CHOOSE i \in 0..(Len(text) - 2) :
    /\ At(text, i) = "%" /\ At(text, i + 1) = "%"
    /\ \A j \in 0..(i - 1) : ~(At(text, j) = "%" /\ At(text, j + 1) = "%")

\* What C16 says Interpolate gives for a text whose first '%%' is at
\* offset i, from what it gives for the text before that offset
StopsAt(text, mapdict, i, before) ==
  IF before[1] = "return"
  THEN Returns(before[2] \o <<"%">> \o Slice(text, i + 2, Len(text)))
  ELSE before

\* C16: Interpolate stops scanning at the first '%%'.  The text before it
\* is expanded as usual (an unknown character there raises), '%%' gives
\* one '%', and what follows is appended as it is: nothing in it is
\* expanded and nothing in it raises UnknownInterpolation.
C16_StopsAtFirstEscape ==
  (interp.result # None /\ HasEscape(interp.text)) =>
    Val(interp.result) =
      StopsAt(interp.text, MapDicts[interp.mapdict], FirstEscape(interp.text),
              Interpolate(Slice(interp.text, 0, FirstEscape(interp.text)),
                          MapDicts[interp.mapdict]))

\* Interpolate('a%%b%Pc', 'X', PATH_MAP) gave 'a%b%Pc'
C16_Witness ==
  /\ interp.text = Example
  /\ interp.mapdict = "PATH_MAP"
  /\ interp.result = Some(Returns(<<"a", "%", "b", "%", "P", "c">>))

\* Signal sig is sent to child p in this step
Forwards(p, sig) == nsent'[p][sig] > nsent[p][sig]

\* Line 613 at the time of the sends: signal-test mode, or a signal outside
\* SIG_WAIT among those forwarded in earlier iterations
Escalating == parsed.signal_test \/ (sigs_sent \ SIG_WAIT) # {}

\* Every signal sent to child p so far is SIGUSR1 or SIGUSR2
OnlyWaitSent(p) == \A g \in Arriving \ SIG_WAIT : nsent[p][g] = 0

\* C17: a forwarded signal arms the kill timer of a child (kill_time = now +
\* KILL_DELAY) exactly when signal-test mode is on or a signal outside
\* SIG_WAIT was forwarded in an earlier iteration of the main loop, and the
\* child is not yet killed; otherwise the timer stays as it is.  So,
\* without signal-test mode, SIGUSR1 and SIGUSR2 alone arm no timer, and
\* every signal forwarded in a later iteration than a signal outside
\* SIG_WAIT arms the timer of every live child not yet killed.
C17_EscalateIff ==
  [][\A p \in Children, sig \in Arriving :
       Forwards(p, sig) =>
         proc'[p].kill_time =
           IF Escalating /\ proc[p].killed = KilledFalse
           THEN Some(Now + KILL_DELAY)
           ELSE proc[p].kill_time]_vars

\* C17 as stated: SIGUSR1/SIGUSR2 alone never arm a kill timer, and every
\* signal forwarded after a signal outside SIG_WAIT was forwarded arms it.
C17_WaitNeverArmsLaterAlwaysArms ==
  [][\A p \in Children, sig \in Arriving :
       Forwards(p, sig) =>
         /\ (sig \in SIG_WAIT /\ OnlyWaitSent(p))
              => proc'[p].kill_time = proc[p].kill_time
         /\ ~OnlyWaitSent(p)
              => proc'[p].kill_time = Some(Now + KILL_DELAY)]_vars

\* Without signal-test mode, SIGINT was forwarded in an earlier iteration
\* and SIGUSR1 has just been forwarded: the timers of the live children
\* are armed
C17_Witness ==
  /\ ~parsed.signal_test
  /\ pc = "fwd"
  /\ SIGINT \in sigs_sent
  /\ sigs_to_send = {SIGUSR1} /\ sigs_left = {}
  /\ procs # <<>>
  /\ \A p \in Range(procs) :
       nsent[p][SIGUSR1] = 1 /\ proc[p].kill_time = Some(Now + KILL_DELAY)

\* The kill timer of child p has run out
Due(p) == proc[p].kill_time # None /\ Val(proc[p].kill_time) <= Now

\* C18: with kill-hung and no permission failure the escalation of a child
\* goes killed = False -> True -> timestamp, one step at a time and never
\* back.  The kill is sent only to a child whose timer is due and that is
\* not killed, and it sets killed = True and kill_time = now + KILL_TIMEOUT;
\* that kill_time then stays until it is due; "timed out killing" comes
\* only for a child that was killed and whose timer is due again, stores
\* the time in killed and counts the child dead.
C18_KillThenTimeout ==
  [][\A p \in Children :
       (parsed.kill_hung /\ ~proc'[p].sigfail) =>
         /\ (\/ (ScanStep /\ InDiag(diag', <<"Killing", p>>))
             \/ (proc[p].killed = KilledFalse /\ proc'[p].killed # KilledFalse))
              => /\ ScanStep /\ InDiag(diag', <<"Killing", p>>)
                 /\ Due(p)
                 /\ proc[p].killed = KilledFalse
                 /\ proc'[p].killed = KilledTrue
                 /\ proc'[p].kill_time = Some(Now + KILL_TIMEOUT)
         /\ (\/ (ScanStep /\ InDiag(diag', <<"Timed out killing", p>>))
             \/ (proc[p].killed = KilledTrue /\ proc'[p].killed # KilledTrue))
              => /\ ScanStep /\ InDiag(diag', <<"Timed out killing", p>>)
                 /\ Due(p)
                 /\ proc[p].killed = KilledTrue
                 /\ proc'[p].killed = KilledAt(Now)
                 /\ p \in deadset'
         /\ (proc[p].killed = KilledTrue /\ p \in Range(procs') /\ ~Due(p))
              => /\ proc'[p].killed = KilledTrue
                 /\ proc'[p].kill_time \in {proc[p].kill_time,
                                            Elapse(proc[p].kill_time)}
         /\ proc[p].killed \notin {KilledFalse, KilledTrue}
              => proc'[p].killed = proc[p].killed]_vars

\* A live child went through both steps: killed, and timed out
C18_Witness ==
  /\ parsed.kill_hung
  /\ \E p \in Range(procs) :
       /\ ~proc[p].sigfail
       /\ proc[p].killed = KilledAt(Now)
       /\ InDiag(diag, <<"Timed out killing", p>>)

\* C19: one Poll of a child that is still alive reads both stdout and
\* stderr, stderr also when stdout delivered data: after a pass, neither
\* pipe of a running child holds what the child had written before the
\* pass, and the pass counts as active when either pipe held data.
C19_LivePollReadsBoth ==
  [][ScanStep =>
       \A p \in Range(procs) :
         status[p] = "run" =>
           /\ pipe'[p][0] = <<>>
           /\ pipe'[p][1] = <<>>
           /\ ReadsOutput(p) => pc' = "top"]_vars

\* Descriptor xfd is registered with a mask that holds bit
Wants(xfd, bit) ==
  compat.registry[xfd] # None /\ HasBit(Val(compat.registry[xfd]), bit)

\* C20: after any sequence of register, modify and unregister calls, a
\* descriptor is in the read, write or priority set exactly when it is in
\* the registry with a mask that holds POLLIN, POLLOUT or POLLPRI, and the
\* lists that poll passes to select are those sets.
C20_SetsMatchRegistry ==
  /\ \A xfd \in Fds :
       /\ xfd \in compat.rset <=> Wants(xfd, POLLIN)
       /\ xfd \in compat.wset <=> Wants(xfd, POLLOUT)
       /\ xfd \in compat.xset <=> Wants(xfd, POLLPRI)
  /\ compat.lists = <<ListOf(compat.rset), ListOf(compat.wset),
                       ListOf(compat.xset)>>
  /\ (compat.args # None /\ Val(compat.args) # <<>>) =>
       SubSeq(Val(compat.args), 1, 3) =
         <<ListOf(compat.rset), ListOf(compat.wset), ListOf(compat.xset)>>

\* Every child has exited (an exited child stays exited)
AllExited == \A p \in Children : status[p] = "exited"

\* C21: if every child eventually exits, the main loop eventually ends with
\* an empty live list and main returns: no poll outlasts its timeout and
\* every exited child is found and moved to the done list by a later pass.
C21_ExitedLeadsToReturn ==
  AllExited ~> (pc = "done" /\ procs = <<>>)

\* C22: in every state, whatever the interleaving of the signal handler
\* with the main loop, the signals already forwarded (sigs_sent) and those
\* being forwarded are among the signals received (sigs_rcvd).
C22_SentSubsetOfReceived ==
  /\ sigs_sent \subseteq sigs_rcvd
  /\ sigs_to_send \subseteq sigs_rcvd

\* One signal was forwarded and another one arrived since
C22_Witness ==
  /\ sigs_sent # {}
  /\ sigs_rcvd \ sigs_sent # {}

\* No supervised signal has been delivered to the supervisor so far
NoSignalYet == Sum(ndeliv, Arriving) = 0

\* The diagnostics of the escalation
Escalations ==
  {"hung", "Killing", "Error killing", "Timed out killing", "Unsignaled",
   "Abandoning"}

\* C23: as long as no supervised signal has been delivered, however long
\* the children run silently: no kill_time is set, no child has been sent a
\* signal or killed, no hung / killing / timed out / Abandoning diagnostic
\* is produced, and the return value is not 999.
C23_QuietWithoutSignal ==
  NoSignalYet =>
    /\ \A p \in Children :
         /\ proc[p].kill_time = None
         /\ proc[p].killed = KilledFalse
         /\ ~proc[p].sigfail
         /\ \A sig \in Arriving : nsent[p][sig] = 0
    /\ \A i \in 1..Len(diag) : diag[i][1] \notin Escalations
    /\ retval # ABANDONED
    /\ deadset = {}

\* No signal, both children silent and running, and the 5 s poll has run
\* its full time
C23_Witness ==
  /\ NoSignalYet
  /\ pc = "poll2"
  /\ deadline = Now
  /\ nwrites = 0
  /\ Len(procs) = NumProcs
  /\ \A p \in Children : status[p] = "run"

\* Main is at the top of its loop, or has left it
AtBoundary == pc \in {"top", "done"}

\* A list holds no child twice
NoRepeat(s) == Cardinality(Range(s)) = Len(s)

\* At a boundary of a loop iteration the live list and the done list are
\* disjoint, hold no child twice and together hold exactly the spawned
\* children; ret is set exactly for the children on the done list, and
\* exactly those have been unregistered from the poller, once.
Partition ==
  AtBoundary =>
    /\ Range(procs) \cap Range(done) = {}
    /\ Range(procs) \cup Range(done) = Children
    /\ NoRepeat(procs) /\ NoRepeat(done)
    /\ \A p \in Children :
         /\ proc[p].ret # None <=> p \in Range(done)
         /\ unregs[p] = IF p \in Range(done) THEN 1 ELSE 0

\* C24: every step leads to a state where the live list and the done list
\* partition the spawned children as above (Partition); a child on the done
\* list stays there and does not come back to the live list; and
\* Unregister runs for a child in the step that moves it to the done list
\* and in no other.
C24_LiveDonePartition ==
  [][/\ Partition'
     /\ \A p \in Children :
          /\ p \in Range(done) => p \in Range(done') /\ p \notin Range(procs')
          /\ p \notin Range(procs) => p \notin Range(procs')
          /\ unregs'[p] =
               IF p \in Range(done') \ Range(done) THEN unregs[p] + 1
               ELSE unregs[p]]_vars

\* One child is on the done list with an exit code, the other one is live
C24_Witness ==
  /\ pc = "top"
  /\ Len(done) = 1 /\ Len(procs) = 1
  /\ proc[done[1]].ret # None
  /\ unregs[done[1]] = 1

\* Signal sig has been sent to every child on the live list
SentToLive(sig) == \A p \in Range(procs) : nsent[p][sig] > 0

\* C25: every supervised signal recorded into sigs_rcvd is eventually
\* forwarded to the children that are live at the next drain, unless the
\* main loop has ended (no live child left, or the children abandoned).
\* A signal of the launch phase is one recorded before the first drain: the
\* handler does there what it does at the top of the loop.
C25_RecordedLeadsToForward ==
  \A sig \in Arriving :
    (sig \in sigs_rcvd) ~> ((sig \in sigs_sent /\ SentToLive(sig)) \/ pc = "done")

\* The kill was sent to child p
KillSent(p) == proc[p].killed # KilledFalse

\* C26: once killed has left False, SetKill changes neither killed nor
\* kill_time, whatever its argument; so no step (output read after the
\* kill, a further signal forwarded with escalation) moves the deadline set
\* by the kill, which only comes nearer as time passes; and killed only
\* moves False -> True -> timestamp.
C26_KilledFreezesTimer ==
  [][\A p \in Children :
       /\ KillSent(p) =>
            \A final \in BOOLEAN : SetKill(proc[p], final, Now) = proc[p]
       /\ (KillSent(p) /\ p \in Range(procs')) =>
            proc'[p].kill_time \in {proc[p].kill_time,
                                    Elapse(proc[p].kill_time)}
       /\ \/ proc'[p].killed = proc[p].killed
          \/ proc[p].killed = KilledFalse /\ proc'[p].killed = KilledTrue
          \/ proc[p].killed = KilledTrue /\ proc'[p].killed = KilledAt(Now)]_vars

\* A signal has just been forwarded with escalation to a child that was
\* killed a second ago: its deadline is still the one the kill set
C26_Witness ==
  /\ pc = "fwd"
  /\ set_kill
  /\ sigs_to_send # {} /\ sigs_left = {}
  /\ \E p \in Range(procs) :
       /\ proc[p].killed = KilledTrue
       /\ proc[p].kill_time = Some(Now + KILL_TIMEOUT - 1)
       /\ \A sig \in sigs_to_send : nsent[p][sig] = 1
====
